---- MODULE Spec2Model ----
(***************************************************************************)
(* A model of the REST Explorer extension (src/src/extension.ts): the two  *)
(* copies of the HTTP executor (makeRequest), the history view provider    *)
(* with its History Store, and the request-editor panels, as they run on   *)
(* the extension host's single event loop.                                 *)
(*                                                                         *)
(* JavaScript strings are TLA+ strings; the character at position i of s   *)
(* is SubSeq(s, i, i).  A JavaScript object is the sequence of its         *)
(* [k, v] properties in insertion order, no key twice.  The value          *)
(* undefined of an optional string field is the string Undefined, which no *)
(* input string equals.                                                    *)
(***************************************************************************)
EXTENDS Integers, Sequences, FiniteSets, TLC

\* ------------------------------------------------------------------------
\* JavaScript values

Undefined == "<undefined>"

\* Boolean(x) of a string-or-undefined x: '' and undefined are falsy.
Truthy(x) == x # Undefined /\ x # ""

\* String(x), as a template literal `${x}` or x + ":" coerces it.
ToStr(x) == IF x = Undefined THEN "undefined" ELSE x

CharAt(s, i) == SubSeq(s, i, i)

\* The printable ASCII characters: code 32 (space) to 95 (_), and 97 (a) to
\* 126 (~).
AsciiLow ==
    " !\"#$%&'()*+,-./0123456789:;<=>?@ABCDEFGHIJKLMNOPQRSTUVWXYZ[\\]^_"

AsciiHigh == "abcdefghijklmnopqrstuvwxyz{|}~"

\* The code point of a one-character string.  The model's input strings hold
\* these characters only, which UTF-8 encodes as one byte per character.
CodePoint(c) ==
    IF \E i \in 1..Len(AsciiLow) : CharAt(AsciiLow, i) = c
    THEN 31 + (CHOOSE i \in 1..Len(AsciiLow) : CharAt(AsciiLow, i) = c)
    ELSE 96 + (CHOOSE i \in 1..Len(AsciiHigh) : CharAt(AsciiHigh, i) = c)

\* Buffer.from(s): the UTF-8 bytes of s.
RECURSIVE BufferFrom(_)
BufferFrom(s) ==
    IF s = "" THEN <<>> ELSE <<CodePoint(Head(s))>> \o BufferFrom(Tail(s))

Base64Alphabet ==
    "ABCDEFGHIJKLMNOPQRSTUVWXYZabcdefghijklmnopqrstuvwxyz0123456789+/"

Base64Char(n) == CharAt(Base64Alphabet, n + 1)

\* buf.toString('base64'): three bytes give four characters of six bits
\* each; a last group of one or two bytes is padded with '='.
RECURSIVE ToBase64(_)
ToBase64(bytes) ==
    IF Len(bytes) = 0 THEN ""
    ELSE IF Len(bytes) = 1 THEN
        Base64Char(bytes[1] \div 4) \o Base64Char((bytes[1] % 4) * 16) \o "=="
    ELSE IF Len(bytes) = 2 THEN
        Base64Char(bytes[1] \div 4)
        \o Base64Char((bytes[1] % 4) * 16 + bytes[2] \div 16)
        \o Base64Char((bytes[2] % 16) * 4) \o "="
    ELSE
        Base64Char(bytes[1] \div 4)
        \o Base64Char((bytes[1] % 4) * 16 + bytes[2] \div 16)
        \o Base64Char((bytes[2] % 16) * 4 + bytes[3] \div 64)
        \o Base64Char(bytes[3] % 64)
        \o ToBase64(SubSeq(bytes, 4, Len(bytes)))

\* ------------------------------------------------------------------------
\* JavaScript objects: property sequences

HasKey(obj, key) == \E i \in 1..Len(obj) : obj[i].k = key

\* obj[key], undefined when obj has no such property.
Get(obj, key) ==
    IF HasKey(obj, key)
    THEN obj[CHOOSE i \in 1..Len(obj) : obj[i].k = key].v
    ELSE Undefined

Digits == "0123456789"

RECURSIVE ToNumber(_)
ToNumber(s) ==
    IF s = "" THEN 0
    ELSE 10 * ToNumber(SubSeq(s, 1, Len(s) - 1))
         + ((CHOOSE i \in 1..10 : CharAt(Digits, i) = CharAt(s, Len(s))) - 1)

\* An integer index key: decimal digits with no leading zero.  An object
\* lists such keys first, in ascending numeric order, then its other keys
\* in insertion order.
IsIndexKey(key) ==
    /\ key # ""
    /\ \A i \in 1..Len(key) : \E j \in 1..10 : CharAt(Digits, j) = CharAt(key, i)
    /\ (Len(key) > 1 => Head(key) # "0")

\* Where a new property key goes in obj.
InsertAt(obj, key) ==
    IF IsIndexKey(key)
    THEN 1 + Cardinality({i \in 1..Len(obj) :
                IsIndexKey(obj[i].k) /\ ToNumber(obj[i].k) < ToNumber(key)})
    ELSE Len(obj) + 1

\* obj[key] = value: an existing property keeps its place.
Put(obj, key, value) ==
    IF HasKey(obj, key)
    THEN [i \in 1..Len(obj) |->
            IF obj[i].k = key THEN [k |-> key, v |-> value] ELSE obj[i]]
    ELSE SubSeq(obj, 1, InsertAt(obj, key) - 1)
         \o <<[k |-> key, v |-> value]>>
         \o SubSeq(obj, InsertAt(obj, key), Len(obj))

\* ------------------------------------------------------------------------
\* String methods

IsIn(c, chars) == \E i \in 1..Len(chars) : CharAt(chars, i) = c

\* s.indexOf(c) for a one-character c, 1-based; 0 when c is not in s.
IndexOf(s, c) ==
    IF IsIn(c, s) THEN CHOOSE i \in 1..Len(s) :
                          CharAt(s, i) = c /\ ~IsIn(c, SubSeq(s, 1, i - 1))
    ELSE 0

\* s.split(c) for a one-character c: the pieces between the occurrences of
\* c, empty pieces kept, so that the result is never empty.
RECURSIVE Split(_, _)
Split(s, c) ==
    IF IndexOf(s, c) = 0 THEN <<s>>
    ELSE <<SubSeq(s, 1, IndexOf(s, c) - 1)>>
         \o Split(SubSeq(s, IndexOf(s, c) + 1, Len(s)), c)

\* s.trim(); a space is the only white space of the model's strings.
RECURSIVE Trim(_)
Trim(s) ==
    IF s = "" THEN ""
    ELSE IF Head(s) = " " THEN Trim(Tail(s))
    ELSE IF CharAt(s, Len(s)) = " " THEN Trim(SubSeq(s, 1, Len(s) - 1))
    ELSE s

\* ------------------------------------------------------------------------
\* Thrown values and the URL constructor

ErrorValue(msg) == [kind |-> "Error", message |-> msg]

NoError == [kind |-> "none", message |-> ""]

Alpha == "ABCDEFGHIJKLMNOPQRSTUVWXYZabcdefghijklmnopqrstuvwxyz"

SchemeChars == Alpha \o "0123456789+-."

SpecialSchemes == {"http", "https", "ws", "wss", "ftp"}

\* The scheme of s: the text before its first ':' when that text is a letter
\* followed by letters, digits, '+', '-' or '.'; "" when s has no scheme.
SchemeOf(s) ==
    LET i == IndexOf(s, ":")
    IN  IF /\ i >= 2
           /\ IsIn(Head(s), Alpha)
           /\ \A j \in 2..(i - 1) : IsIn(CharAt(s, j), SchemeChars)
        THEN SubSeq(s, 1, i - 1)
        ELSE ""

RECURSIVE SkipSlashes(_)
SkipSlashes(s) ==
    IF s # "" /\ Head(s) \in {"/", "\\"} THEN SkipSlashes(Tail(s)) ELSE s

\* The host of what follows "scheme:" in a special-scheme URL: the text
\* after the slashes, up to the first '/', '?' or '#'.
RECURSIVE HostPrefix(_)
HostPrefix(s) ==
    IF s = "" \/ Head(s) \in {"/", "\\", "?", "#"} THEN ""
    ELSE Head(s) \o HostPrefix(Tail(s))

\* Whether new URL(s) succeeds, with no base URL: s needs a scheme, and a
\* special scheme needs a host, which holds no space.
IsAbsoluteURL(s) ==
    LET t      == Trim(s)
        scheme == SchemeOf(t)
        host   == HostPrefix(SkipSlashes(SubSeq(t, Len(scheme) + 2, Len(t))))
    IN  /\ scheme # ""
        /\ scheme \in SpecialSchemes => (host # "" /\ ~IsIn(" ", host))

InvalidURLMessage == "Invalid URL"

\* A URL object: the text it was parsed from and the entries that
\* url.searchParams.append has added, in order.
NoURL == [input |-> "", appended |-> <<>>]

\* ------------------------------------------------------------------------
\* Messages, requests and responses

\* An optional object-valued field of a message: absent, or its properties.
Absent == [def |-> FALSE, props |-> <<>>]

Object(props) == [def |-> TRUE, props |-> props]

\* message.auth: absent, or {type, username?, password?, token?}.
NoAuth ==
    [def |-> FALSE, type |-> Undefined, username |-> Undefined,
     password |-> Undefined, token |-> Undefined]

Auth(type, username, password, token) ==
    [def |-> TRUE, type |-> type, username |-> username,
     password |-> password, token |-> token]

\* A WebviewMessage.
WebviewMessage(command, url, method, headers, body, query, auth) ==
    [command |-> command, url |-> url, method |-> method, headers |-> headers,
     body |-> body, query |-> query, auth |-> auth]

\* The options object handed to fetch; hasBody tells whether options.body
\* was set.
Options(method, headers, hasBody, body) ==
    [method |-> method, headers |-> headers, hasBody |-> hasBody, body |-> body]

NoOptions == Options(Undefined, <<>>, FALSE, Undefined)

\* What the code before the fetch call comes to: it threw error, or it
\* reached fetch(url.toString(), options).
Threw(error) == [threw |-> TRUE, error |-> error, url |-> NoURL, options |-> NoOptions]

Reached(url, options) ==
    [threw |-> FALSE, error |-> NoError, url |-> url, options |-> options]

\* ResponseData.
ResponseData(status, statusText, headers, body, size, time, cookies) ==
    [status |-> status, statusText |-> statusText, headers |-> headers,
     body |-> body, size |-> size, time |-> time, cookies |-> cookies]

\* ------------------------------------------------------------------------
\* fetch(url, options): what node-fetch sends for options.headers

UpperCaseLetters == "ABCDEFGHIJKLMNOPQRSTUVWXYZ"

LowerCaseLetters == "abcdefghijklmnopqrstuvwxyz"

\* s.toLowerCase()
RECURSIVE ToLowerCase(_)
ToLowerCase(s) ==
    IF s = "" THEN ""
    ELSE (IF IsIn(Head(s), UpperCaseLetters)
          THEN CharAt(LowerCaseLetters, IndexOf(UpperCaseLetters, Head(s)))
          ELSE Head(s))
         \o ToLowerCase(Tail(s))

\* The values sent under the header name: fetch appends each property of
\* options.headers, in order, to the values of the name it spells, whatever
\* the case of its letters, and sends every value.
RECURSIVE SentValues(_, _)
SentValues(headers, name) ==
    IF headers = <<>> THEN <<>>
    ELSE (IF ToLowerCase(Head(headers).k) = ToLowerCase(name)
          THEN <<Head(headers).v>> ELSE <<>>)
         \o SentValues(Tail(headers), name)

\* ------------------------------------------------------------------------
\* RestExplorerViewProvider.makeRequest

\* Object.entries(message.query).forEach(... url.searchParams.append ...)
RECURSIVE ProviderAppendQuery(_, _)
ProviderAppendQuery(url, entries) ==
    IF entries = <<>> THEN url
    ELSE ProviderAppendQuery(
            [url EXCEPT !.appended = Append(@, <<Head(entries).k, Head(entries).v>>)],
            Tail(entries))

\* (variant) The auth switch with the ':' between username and password
\* left out.
ProviderAuthHeadersNoSeparator(headers, auth) ==
    IF ~auth.def THEN headers
    ELSE IF auth.type = "basic" THEN
        Put(headers, "Authorization",
            "Basic " \o ToBase64(BufferFrom(
                ToStr(auth.username) \o ToStr(auth.password))))
    ELSE IF auth.type = "bearer" THEN
        Put(headers, "Authorization", "Bearer " \o ToStr(auth.token))
    ELSE headers

ProviderAuthHeaders(headers, auth) ==
    IF ~auth.def THEN headers
    ELSE IF auth.type = "basic" THEN
        Put(headers, "Authorization",
            "Basic " \o ToBase64(BufferFrom(
                ToStr(auth.username) \o ":" \o ToStr(auth.password))))
    ELSE IF auth.type = "bearer" THEN
        Put(headers, "Authorization", "Bearer " \o ToStr(auth.token))
    ELSE headers

ProviderBody(options, message) ==
    IF message.method \in {"POST", "PUT", "PATCH"} /\ Truthy(message.body)
    THEN [options EXCEPT
            !.hasBody = TRUE,
            !.body = message.body,
            !.headers = IF ~Truthy(Get(@, "Content-Type"))
                        THEN Put(@, "Content-Type", "application/json")
                        ELSE @]
    ELSE options

\* The try block up to the fetch call.
ProviderRequest(message) ==
    IF ~IsAbsoluteURL(ToStr(message.url))
    THEN Threw(ErrorValue(InvalidURLMessage))
    ELSE LET parsed == [input |-> ToStr(message.url), appended |-> <<>>]
             url == IF message.query.def
                    THEN ProviderAppendQuery(parsed, message.query.props)
                    ELSE parsed
             options == Options(message.method,
                                IF message.headers.def THEN message.headers.props
                                ELSE <<>>,
                                FALSE, Undefined)
             withAuth == [options EXCEPT
                            !.headers = ProviderAuthHeaders(@, message.auth)]
         IN  Reached(url, ProviderBody(withAuth, message))

\* (variant) The provider's cookie loop keeping, as the value, all that
\* follows the first '='.
RECURSIVE ProviderCookiesWholeValue(_, _)
ProviderCookiesWholeValue(cookies, segments) ==
    IF segments = <<>> THEN cookies
    ELSE LET at    == IndexOf(Head(segments), "=")
             name  == IF at = 0 THEN Head(segments)
                      ELSE SubSeq(Head(segments), 1, at - 1)
             value == IF at = 0 THEN Undefined
                      ELSE SubSeq(Head(segments), at + 1, Len(Head(segments)))
         IN  ProviderCookiesWholeValue(
                IF Truthy(name) /\ Truthy(value)
                THEN Put(cookies, Trim(name), Trim(value))
                ELSE cookies,
                Tail(segments))

\* setCookieHeader.split(';').forEach(cookie => ...), onto cookies.
RECURSIVE ProviderCookies(_, _)
ProviderCookies(cookies, segments) ==
    IF segments = <<>> THEN cookies
    ELSE LET parts == Split(Head(segments), "=")
             name  == parts[1]
             value == IF Len(parts) >= 2 THEN parts[2] ELSE Undefined
         IN  ProviderCookies(
                IF Truthy(name) /\ Truthy(value)
                THEN Put(cookies, Trim(name), Trim(value))
                ELSE cookies,
                Tail(segments))

\* response.headers.forEach((value, key) => headers[key] = value)
RECURSIVE ProviderHeaders(_, _)
ProviderHeaders(headers, entries) ==
    IF entries = <<>> THEN headers
    ELSE ProviderHeaders(Put(headers, Head(entries).k, Head(entries).v),
                         Tail(entries))

\* The try block after response.text() has given text.
ProviderResponseData(response, text, time) ==
    LET setCookieHeader == Get(response.headers, "set-cookie")
        cookies == IF Truthy(setCookieHeader)
                   THEN ProviderCookies(<<>>, Split(setCookieHeader, ";"))
                   ELSE <<>>
    IN  ResponseData(response.status, response.statusText,
                     ProviderHeaders(<<>>, response.headers),
                     text, Len(text), time, cookies)

\* (variant) The catch block without its instanceof Error branch.
ProviderErrorDataUnknown(error, time) ==
    LET errorMessage == "An unknown error occurred"
    IN  ResponseData(0, "Error", <<>>, errorMessage, Len(errorMessage), time,
                     <<>>)

\* The catch block.
ProviderErrorData(error, time) ==
    LET errorMessage ==
            IF error.kind = "Error" THEN error.message
            ELSE IF error.kind = "string" THEN error.message
            ELSE "An unknown error occurred"
    IN  ResponseData(0, "Error", <<>>, errorMessage, Len(errorMessage), time, <<>>)

\* ------------------------------------------------------------------------
\* activate.makeRequest

RECURSIVE AppendQuery(_, _)
AppendQuery(url, entries) ==
    IF entries = <<>> THEN url
    ELSE AppendQuery(
            [url EXCEPT !.appended = Append(@, <<Head(entries).k, Head(entries).v>>)],
            Tail(entries))

AuthHeaders(headers, auth) ==
    IF ~auth.def THEN headers
    ELSE IF auth.type = "basic" THEN
        Put(headers, "Authorization",
            "Basic " \o ToBase64(BufferFrom(
                ToStr(auth.username) \o ":" \o ToStr(auth.password))))
    ELSE IF auth.type = "bearer" THEN
        Put(headers, "Authorization", "Bearer " \o ToStr(auth.token))
    ELSE headers

\* (variant) The body attached for every method.
BodyForEveryMethod(options, message) ==
    IF Truthy(message.body)
    THEN [options EXCEPT
            !.hasBody = TRUE,
            !.body = message.body,
            !.headers = IF ~Truthy(Get(@, "Content-Type"))
                        THEN Put(@, "Content-Type", "application/json")
                        ELSE @]
    ELSE options

Body(options, message) ==
    IF message.method \in {"POST", "PUT", "PATCH"} /\ Truthy(message.body)
    THEN [options EXCEPT
            !.hasBody = TRUE,
            !.body = message.body,
            !.headers = IF ~Truthy(Get(@, "Content-Type"))
                        THEN Put(@, "Content-Type", "application/json")
                        ELSE @]
    ELSE options

\* (variant) The try block with the URL handed to fetch unparsed.
RequestUnparsed(message) ==
    LET parsed == [input |-> ToStr(message.url), appended |-> <<>>]
        url == IF message.query.def
               THEN AppendQuery(parsed, message.query.props)
               ELSE parsed
        options == Options(message.method,
                           IF message.headers.def THEN message.headers.props
                           ELSE <<>>,
                           FALSE, Undefined)
        withAuth == [options EXCEPT !.headers = AuthHeaders(@, message.auth)]
    IN  Reached(url, Body(withAuth, message))

\* The try block up to the fetch call.
Request(message) ==
    IF ~IsAbsoluteURL(ToStr(message.url))
    THEN Threw(ErrorValue(InvalidURLMessage))
    ELSE LET parsed == [input |-> ToStr(message.url), appended |-> <<>>]
             url == IF message.query.def
                    THEN AppendQuery(parsed, message.query.props)
                    ELSE parsed
             options == Options(message.method,
                                IF message.headers.def THEN message.headers.props
                                ELSE <<>>,
                                FALSE, Undefined)
             withAuth == [options EXCEPT
                            !.headers = AuthHeaders(@, message.auth)]
         IN  Reached(url, Body(withAuth, message))

RECURSIVE Cookies(_, _)
Cookies(cookies, segments) ==
    IF segments = <<>> THEN cookies
    ELSE LET parts == Split(Head(segments), "=")
             name  == parts[1]
             value == IF Len(parts) >= 2 THEN parts[2] ELSE Undefined
         IN  Cookies(
                IF Truthy(name) /\ Truthy(value)
                THEN Put(cookies, Trim(name), Trim(value))
                ELSE cookies,
                Tail(segments))

RECURSIVE Headers(_, _)
Headers(headers, entries) ==
    IF entries = <<>> THEN headers
    ELSE Headers(Put(headers, Head(entries).k, Head(entries).v), Tail(entries))

\* The try block after response.text() has given text.
MakeResponseData(response, text, time) ==
    LET setCookieHeader == Get(response.headers, "set-cookie")
        cookies == IF Truthy(setCookieHeader)
                   THEN Cookies(<<>>, Split(setCookieHeader, ";"))
                   ELSE <<>>
    IN  ResponseData(response.status, response.statusText,
                     Headers(<<>>, response.headers),
                     text, Len(text), time, cookies)

\* The catch block.
MakeErrorData(error, time) ==
    LET errorMessage ==
            IF error.kind = "Error" THEN error.message
            ELSE IF error.kind = "string" THEN error.message
            ELSE "An unknown error occurred"
    IN  ResponseData(0, "Error", <<>>, errorMessage, Len(errorMessage), time, <<>>)

\* ------------------------------------------------------------------------
\* The request form of the request-editor panel (sendRequest)

Row(checked, key, value) == [checked |-> checked, key |-> key, value |-> value]

\* forEach(row => { if (checkbox.checked && keyInput.value && valueInput.value)
\*                      obj[keyInput.value] = valueInput.value })
RECURSIVE CollectRows(_, _)
CollectRows(obj, rows) ==
    IF rows = <<>> THEN obj
    ELSE CollectRows(
            IF Head(rows).checked /\ Head(rows).key # "" /\ Head(rows).value # ""
            THEN Put(obj, Head(rows).key, Head(rows).value)
            ELSE obj,
            Tail(rows))

CollectAuth(form) ==
    IF form.activeAuthTab = "basic"
    THEN Auth("basic", form.username, form.password, Undefined)
    ELSE IF form.activeAuthTab = "bearer"
    THEN Auth("bearer", Undefined, Undefined, form.token)
    ELSE Auth("none", Undefined, Undefined, Undefined)

\* The message sendRequest posts for the form's fields.
sendRequest(form) ==
    WebviewMessage("makeRequest", form.url, form.method,
                   Object(CollectRows(<<>>, form.headerRows)),
                   form.body,
                   Object(CollectRows(<<>>, form.queryRows)),
                   CollectAuth(form))

Form(method, url, queryRows, headerRows, activeAuthTab, username, password, token, body) ==
    [method |-> method, url |-> url, queryRows |-> queryRows,
     headerRows |-> headerRows, activeAuthTab |-> activeAuthTab,
     username |-> username, password |-> password, token |-> token,
     body |-> body]

\* ------------------------------------------------------------------------
\* Bounds and inputs of the model

MaxCalls == 3
MaxPanels == 2
MaxViews == 1
MaxClock == 1

P(k, v) == [k |-> k, v |-> v]

\* The messages a webview posts to its handler.
MsgA ==
    sendRequest(Form("GET", "http://a.test/", <<Row(TRUE, "q", "x")>>, <<>>,
                     "basic", "user", "pass", "", "ignored"))

MsgBadURL ==
    sendRequest(Form("POST", "a.test/items", <<>>,
                     <<Row(TRUE, "X-Trace", "1")>>, "none", "", "", "", "{}"))

MsgNoURL ==
    sendRequest(Form("GET", "", <<>>, <<>>, "none", "", "", "", ""))

MsgNoMethod ==
    WebviewMessage("makeRequest", "http://a.test/", Undefined, Absent,
                   Undefined, Absent, NoAuth)

MsgEmptyMethod ==
    WebviewMessage("makeRequest", "http://a.test/", "", Absent,
                   Undefined, Absent, NoAuth)

MsgMissingURL ==
    WebviewMessage("makeRequest", Undefined, "GET", Absent,
                   Undefined, Absent, NoAuth)

MsgOpenLink ==
    WebviewMessage("openLink", "http://a.test/doc", Undefined, Absent,
                   Undefined, Absent, NoAuth)

MsgOpenNothing ==
    WebviewMessage("openLink", Undefined, Undefined, Absent,
                   Undefined, Absent, NoAuth)

MsgStartNewRequest ==
    WebviewMessage("startNewRequest", Undefined, Undefined, Absent,
                   Undefined, Absent, NoAuth)

Messages ==
    {MsgA, MsgBadURL, MsgNoURL, MsgNoMethod, MsgEmptyMethod, MsgMissingURL,
     MsgOpenLink, MsgOpenNothing, MsgStartNewRequest}

\* What the transport can answer: fetch rejects with an Error or resolves
\* with a response, whose text() then rejects or gives the body.
FetchErrors == {ErrorValue("getaddrinfo ENOTFOUND")}

Response(status, statusText, headers) ==
    [status |-> status, statusText |-> statusText, headers |-> headers]

NoResponse == Response(0, "", <<>>)

Responses ==
    {Response(200, "OK", <<P("content-type", "text/plain"),
                           P("set-cookie", "a=1; Path=/")>>)}

TextErrors == {ErrorValue("Premature close")}

Texts == {"see http://a.test/doc"}

\* ------------------------------------------------------------------------
\* State

VARIABLES
    view,           \* RestExplorerViewProvider._view: 0 (undefined) or a view
    html,           \* per view, the history its webview.html was rendered from
    history,        \* RestExplorerViewProvider._history
    viewPosted,     \* per view, the messages posted to its webview
    currentPanels,  \* activate.currentPanels
    created,        \* the number of panels created so far: panels 1..created
    disposed,       \* the panels disposed so far
    panelPosted,    \* per panel, the messages posted to its webview
    tlsRejectUnauthorized, \* process.env.NODE_TLS_REJECT_UNAUTHORIZED
    calls,          \* the makeRequest calls made so far, in the order made
    microtasks,     \* the calls whose caller's continuation is queued
    now,            \* Date.now()
    unhandled,      \* the calls whose message handler ended with an error
    completed,      \* the provider's calls in the order they returned (for
                    \* stating properties)
    incomplete      \* the handlers ("view", "panel") that, since the state
                    \* last changed, were given a makeRequest message whose
                    \* url or method is missing or empty (for stating
                    \* properties)

\* The variables other than incomplete.
programVars ==
    <<view, html, history, viewPosted, currentPanels, created, disposed,
      panelPosted, tlsRejectUnauthorized, calls, microtasks, now,
      unhandled, completed>>

vars == <<programVars, incomplete>>

Views == 1..MaxViews

Panels == 1..MaxPanels

\* The owner of a call made by the history view provider.
Provider == 0

NoData == ResponseData(0, "", <<>>, "", 0, 0, <<>>)

\* The message {command: 'response', data}; call names the makeRequest call
\* whose result data is, for stating properties.
ResponseMessage(data, call) ==
    [command |-> "response", data |-> data, call |-> call]

Init ==
    /\ view = 0
    /\ html = [v \in Views |-> <<>>]
    /\ history = <<>>
    /\ viewPosted = [v \in Views |-> <<>>]
    /\ currentPanels = <<>>
    /\ created = 0
    /\ disposed = {}
    /\ panelPosted = [p \in Panels |-> <<>>]
    /\ tlsRejectUnauthorized = Undefined
    /\ calls = <<>>
    /\ microtasks = <<>>
    /\ now = 0
    /\ unhandled = <<>>
    /\ completed = <<>>
    /\ incomplete = {}

\* The url or the method of message is missing or empty.
Incomplete(message) ==
    \/ message.url \in {Undefined, ""}
    \/ message.method \in {Undefined, ""}

\* incomplete after handler was given a makeRequest message.
Given(handler, message) ==
    IF Incomplete(message) THEN incomplete \cup {handler} ELSE {}

\* A macrotask (a message, a transport event, a dispose) starts only when
\* no microtask is queued.
Idle == microtasks = <<>>

\* A makeRequest call: who made it (Provider, or the panel whose handler did),
\* where it stands (pc: awaiting "fetch", awaiting "text", "settled" with its
\* caller's continuation queued, "done"), and what it has come to.  fetches
\* counts its calls of fetch; outcome tells how its try block ended ("pending"
\* before that, then "threw" for the URL constructor, "fetchRejected",
\* "textRejected" or "ok") and error what was thrown; delivery tells what
\* became of the panel handler's postMessage ("none" before it).
Call(owner, message, pc, startTime, request, fetches, response, data, outcome, error, delivery) ==
    [owner |-> owner, message |-> message, pc |-> pc, startTime |-> startTime,
     request |-> request, fetches |-> fetches, response |-> response,
     data |-> data, outcome |-> outcome, error |-> error,
     delivery |-> delivery]

\* ------------------------------------------------------------------------
\* RestExplorerViewProvider

\* (variant) _update() that leaves the rendered list as it was.
updateNothing(h) == html

\* _update(), for the history h.
update(h) == IF view # 0 THEN [html EXCEPT ![view] = h] ELSE html

\* (variant) makeRequest returning responseData without posting it.
PostToViewNothing(data, id) == viewPosted

\* if (this._view) this._view.webview.postMessage({command: 'response', data})
PostToView(data, id) ==
    IF view # 0
    THEN [viewPosted EXCEPT ![view] = Append(@, ResponseMessage(data, id))]
    ELSE viewPosted

resolveWebviewView ==
    /\ Idle
    /\ view < MaxViews
    /\ view' = view + 1
    /\ html' = [html EXCEPT ![view + 1] = history]
    /\ UNCHANGED <<history, viewPosted, currentPanels, created, disposed,
                   panelPosted, tlsRejectUnauthorized, calls, microtasks, now,
                   unhandled, completed>>
    /\ incomplete' = {}

\* makeRequest(message) of the provider, from its start to its first await:
\* it awaits fetch, or (the URL constructor threw) it has run to its return.
ProviderMakeRequest(message) ==
    LET id == Len(calls) + 1
        request == ProviderRequest(message)
        data == ProviderErrorData(request.error, now - now)
    IN  IF request.threw
        THEN /\ calls' = Append(calls, Call(Provider, message, "settled", now,
                                request, 0, NoResponse, data, "threw",
                                request.error, "none"))
             /\ viewPosted' = PostToView(data, id)
             /\ completed' = Append(completed, id)
             /\ microtasks' = Append(microtasks, id)
             /\ UNCHANGED tlsRejectUnauthorized
        ELSE /\ calls' = Append(calls, Call(Provider, message, "fetch", now,
                                request, 1, NoResponse, NoData, "pending",
                                NoError, "none"))
             /\ tlsRejectUnauthorized' = "0"
             /\ UNCHANGED <<viewPosted, microtasks, completed>>

\* activate.createNewRequestPanel()
createNewRequestPanel ==
    /\ created < MaxPanels
    /\ created' = created + 1
    /\ currentPanels' = Append(currentPanels, created + 1)
    /\ UNCHANGED <<view, html, history, viewPosted, disposed, panelPosted,
                   tlsRejectUnauthorized, calls, microtasks, now, unhandled, completed>>
    /\ incomplete' = {}

\* case 'makeRequest' of the view's onDidReceiveMessage
HistoryMakeRequest(message) ==
    /\ message.command = "makeRequest"
    /\ IF Truthy(message.url) /\ Truthy(message.method)
       THEN /\ Len(calls) < MaxCalls
            /\ ProviderMakeRequest(message)
            /\ UNCHANGED <<view, html, history, currentPanels, created,
                           disposed, panelPosted, now, unhandled>>
       ELSE UNCHANGED programVars
    /\ incomplete' = Given("view", message)

\* case 'openLink': vscode.env.openExternal, which changes nothing here.
HistoryOpenLink(message) ==
    /\ message.command = "openLink"
    /\ UNCHANGED programVars
    /\ incomplete' = {}

\* (variant) case 'startNewRequest' emptying the history as it opens the
\* panel.
HistoryStartNewRequestClearing(message) ==
    /\ message.command = "startNewRequest"
    /\ created < MaxPanels
    /\ created' = created + 1
    /\ currentPanels' = Append(currentPanels, created + 1)
    /\ history' = <<>>
    /\ UNCHANGED <<view, html, viewPosted, disposed, panelPosted,
                   tlsRejectUnauthorized, calls, microtasks, now, unhandled,
                   completed>>
    /\ incomplete' = {}

\* case 'startNewRequest'
HistoryStartNewRequest(message) ==
    /\ message.command = "startNewRequest"
    /\ createNewRequestPanel

\* The handler resolveWebviewView registers on the view's webview.
HistoryOnDidReceiveMessage(message) ==
    /\ Idle
    /\ view # 0
    /\ \/ HistoryMakeRequest(message)
       \/ HistoryOpenLink(message)
       \/ HistoryStartNewRequest(message)

\* A RequestHistory; call names the makeRequest call it was made for, for
\* stating properties.
RequestHistory(url, method, timestamp, response, call) ==
    [url |-> url, method |-> method, timestamp |-> timestamp,
     response |-> response, call |-> call]

\* h with entry put before the first entry of a later call.
RECURSIVE InsertByCall(_, _)
InsertByCall(h, entry) ==
    IF h = <<>> \/ Head(h).call > entry.call THEN <<entry>> \o h
    ELSE <<Head(h)>> \o InsertByCall(Tail(h), entry)

\* (variant) The .then callback keeping the history in the order of the
\* submissions.
HistoryThenInSubmissionOrder ==
    /\ microtasks # <<>>
    /\ calls[Head(microtasks)].owner = Provider
    /\ LET id == Head(microtasks)
           newHistory == RequestHistory(calls[id].message.url,
                                        calls[id].message.method,
                                        now, calls[id].data, id)
       IN  /\ history' = InsertByCall(history, newHistory)
           /\ html' = update(history')
           /\ calls' = [calls EXCEPT ![id].pc = "done"]
    /\ microtasks' = Tail(microtasks)
    /\ UNCHANGED <<view, viewPosted, currentPanels, created, disposed,
                   panelPosted, tlsRejectUnauthorized, now, unhandled,
                   completed>>
    /\ incomplete' = {}

\* (variant) The .then callback replacing an earlier entry of the same
\* method and url.
HistoryThenDeduplicated ==
    /\ microtasks # <<>>
    /\ calls[Head(microtasks)].owner = Provider
    /\ LET id == Head(microtasks)
           newHistory == RequestHistory(calls[id].message.url,
                                        calls[id].message.method,
                                        now, calls[id].data, id)
           Other(entry) == entry.url # newHistory.url
                           \/ entry.method # newHistory.method
       IN  /\ history' = Append(SelectSeq(history, Other), newHistory)
           /\ html' = update(history')
           /\ calls' = [calls EXCEPT ![id].pc = "done"]
    /\ microtasks' = Tail(microtasks)
    /\ UNCHANGED <<view, viewPosted, currentPanels, created, disposed,
                   panelPosted, tlsRejectUnauthorized, now, unhandled,
                   completed>>
    /\ incomplete' = {}

\* (variant) The .then callback taking url and method from the message the
\* handler was given last, not from the one its call was made for.
HistoryThenLastMessage ==
    /\ microtasks # <<>>
    /\ calls[Head(microtasks)].owner = Provider
    /\ LET id == Head(microtasks)
           last == CHOOSE c \in 1..Len(calls) :
                    /\ calls[c].owner = Provider
                    /\ \A d \in 1..Len(calls) :
                        calls[d].owner = Provider => d <= c
           newHistory == RequestHistory(calls[last].message.url,
                                        calls[last].message.method,
                                        now, calls[id].data, id)
       IN  /\ history' = Append(history, newHistory)
           /\ html' = update(history')
           /\ calls' = [calls EXCEPT ![id].pc = "done"]
    /\ microtasks' = Tail(microtasks)
    /\ UNCHANGED <<view, viewPosted, currentPanels, created, disposed,
                   panelPosted, tlsRejectUnauthorized, now, unhandled, completed>>
    /\ incomplete' = {}

\* The .then callback of the 'makeRequest' case, for the call at the head of
\* the microtask queue.
HistoryThen ==
    /\ microtasks # <<>>
    /\ calls[Head(microtasks)].owner = Provider
    /\ LET id == Head(microtasks)
           newHistory == RequestHistory(calls[id].message.url,
                                        calls[id].message.method,
                                        now, calls[id].data, id)
       IN  /\ history' = Append(history, newHistory)
           /\ html' = update(history')
           /\ calls' = [calls EXCEPT ![id].pc = "done"]
    /\ microtasks' = Tail(microtasks)
    /\ UNCHANGED <<view, viewPosted, currentPanels, created, disposed,
                   panelPosted, tlsRejectUnauthorized, now, unhandled, completed>>
    /\ incomplete' = {}

\* ------------------------------------------------------------------------
\* activate: the request-editor panels

\* (variant) makeRequest abandoning the calls its panel still awaits.
MakeRequestCancellingPrevious(panel, message) ==
    LET id == Len(calls) + 1
        request == Request(message)
        data == MakeErrorData(request.error, now - now)
        kept == [i \in 1..Len(calls) |->
                    IF calls[i].owner = panel /\ calls[i].pc \in {"fetch", "text"}
                    THEN [calls[i] EXCEPT !.pc = "done"]
                    ELSE calls[i]]
    IN  IF request.threw
        THEN /\ calls' = Append(kept, Call(panel, message, "settled", now,
                                request, 0, NoResponse, data, "threw",
                                request.error, "none"))
             /\ microtasks' = Append(microtasks, id)
             /\ UNCHANGED tlsRejectUnauthorized
        ELSE /\ calls' = Append(kept, Call(panel, message, "fetch", now,
                                request, 1, NoResponse, NoData, "pending",
                                NoError, "none"))
             /\ tlsRejectUnauthorized' = "0"
             /\ UNCHANGED microtasks

\* makeRequest(message) of activate, made for panel, from its start to its
\* first await (or to its return, when the URL constructor threw).
MakeRequest(panel, message) ==
    LET id == Len(calls) + 1
        request == Request(message)
        data == MakeErrorData(request.error, now - now)
    IN  IF request.threw
        THEN /\ calls' = Append(calls, Call(panel, message, "settled", now,
                                request, 0, NoResponse, data, "threw",
                                request.error, "none"))
             /\ microtasks' = Append(microtasks, id)
             /\ UNCHANGED tlsRejectUnauthorized
        ELSE /\ calls' = Append(calls, Call(panel, message, "fetch", now,
                                request, 1, NoResponse, NoData, "pending",
                                NoError, "none"))
             /\ tlsRejectUnauthorized' = "0"
             /\ UNCHANGED microtasks

\* The command restExplorer.newRequest.
NewRequestCommand ==
    /\ Idle
    /\ createNewRequestPanel

\* (variant) The onDidDispose callback with splice(index), which removes
\* the panel and every panel after it.
PanelOnDidDisposeSplicingTail(panel) ==
    /\ Idle
    /\ panel \in 1..created
    /\ panel \notin disposed
    /\ disposed' = disposed \cup {panel}
    /\ currentPanels' =
        LET found == {i \in 1..Len(currentPanels) : currentPanels[i] = panel}
            index == IF found = {} THEN 0
                     ELSE CHOOSE i \in found : \A j \in found : i <= j
        IN  IF index # 0
            THEN SubSeq(currentPanels, 1, index - 1)
            ELSE currentPanels
    /\ UNCHANGED <<view, html, history, viewPosted, created, panelPosted,
                   tlsRejectUnauthorized, calls, microtasks, now, unhandled, completed>>
    /\ incomplete' = {}

\* The panel's onDidDispose callback.
PanelOnDidDispose(panel) ==
    /\ Idle
    /\ panel \in 1..created
    /\ panel \notin disposed
    /\ disposed' = disposed \cup {panel}
    /\ currentPanels' =
        LET found == {i \in 1..Len(currentPanels) : currentPanels[i] = panel}
            index == IF found = {} THEN 0
                     ELSE CHOOSE i \in found : \A j \in found : i <= j
        IN  IF index # 0
            THEN SubSeq(currentPanels, 1, index - 1)
                 \o SubSeq(currentPanels, index + 1, Len(currentPanels))
            ELSE currentPanels
    /\ UNCHANGED <<view, html, history, viewPosted, created, panelPosted,
                   tlsRejectUnauthorized, calls, microtasks, now, unhandled, completed>>
    /\ incomplete' = {}

\* (variant) The panel's handler testing the command alone.
PanelOnDidReceiveMessageUnguarded(panel, message) ==
    /\ Idle
    /\ panel \in 1..created
    /\ panel \notin disposed
    /\ IF message.command = "makeRequest"
       THEN /\ Len(calls) < MaxCalls
            /\ MakeRequest(panel, message)
            /\ UNCHANGED <<view, html, history, viewPosted, currentPanels,
                           created, disposed, panelPosted, now, unhandled, completed>>
            /\ incomplete' = Given("panel", message)
       ELSE /\ UNCHANGED programVars
            /\ incomplete' = {}

\* The panel's onDidReceiveMessage handler, up to its await.
PanelOnDidReceiveMessage(panel, message) ==
    /\ Idle
    /\ panel \in 1..created
    /\ panel \notin disposed
    /\ IF /\ message.command = "makeRequest"
          /\ Truthy(message.url)
          /\ Truthy(message.method)
       THEN /\ Len(calls) < MaxCalls
            /\ MakeRequest(panel, message)
            /\ UNCHANGED <<view, html, history, viewPosted, currentPanels,
                           created, disposed, panelPosted, now, unhandled, completed>>
            /\ incomplete' = Given("panel", message)
       ELSE /\ UNCHANGED programVars
            /\ incomplete' = IF message.command = "makeRequest"
                              THEN Given("panel", message) ELSE {}

\* What panel.webview.postMessage does once the panel is disposed is the
\* host's affair: it throws, or it ignores the message.
DisposedPostOutcomes == {"throws", "ignored"}

\* (variant) The handler after its await, posting to every open panel.
PanelResponseToAll ==
    /\ microtasks # <<>>
    /\ calls[Head(microtasks)].owner # Provider
    /\ LET id == Head(microtasks)
           open == {currentPanels[i] : i \in 1..Len(currentPanels)}
       IN  /\ panelPosted' = [p \in Panels |->
                    IF p \in open
                    THEN Append(panelPosted[p],
                                ResponseMessage(calls[id].data, id))
                    ELSE panelPosted[p]]
           /\ calls' = [calls EXCEPT
                    ![id].pc = "done",
                    ![id].delivery = IF calls[id].owner \in open
                                     THEN "posted" ELSE "ignored"]
    /\ microtasks' = Tail(microtasks)
    /\ UNCHANGED <<view, html, history, viewPosted, currentPanels, created,
                   disposed, tlsRejectUnauthorized, now, unhandled, completed>>
    /\ incomplete' = {}

\* (variant) The handler after its await, without its try and catch.
PanelResponseUncaught ==
    /\ microtasks # <<>>
    /\ calls[Head(microtasks)].owner # Provider
    /\ LET id == Head(microtasks)
           panel == calls[id].owner
       IN  \/ /\ panel \notin disposed
              /\ panelPosted' = [panelPosted EXCEPT
                    ![panel] = Append(@, ResponseMessage(calls[id].data, id))]
              /\ calls' = [calls EXCEPT ![id].pc = "done",
                                        ![id].delivery = "posted"]
              /\ UNCHANGED unhandled
           \/ /\ panel \in disposed
              /\ \E outcome \in DisposedPostOutcomes :
                    /\ calls' = [calls EXCEPT
                            ![id].pc = "done",
                            ![id].delivery = IF outcome = "throws"
                                             THEN "thrown" ELSE "ignored"]
                    /\ unhandled' = IF outcome = "throws"
                                    THEN Append(unhandled, id) ELSE unhandled
              /\ UNCHANGED panelPosted
    /\ microtasks' = Tail(microtasks)
    /\ UNCHANGED <<view, html, history, viewPosted, currentPanels, created,
                   disposed, tlsRejectUnauthorized, now, completed>>
    /\ incomplete' = {}

\* The handler after its await, for the call at the head of the microtask
\* queue: try { panel.webview.postMessage(...) } catch { console.error }.
PanelResponse ==
    /\ microtasks # <<>>
    /\ calls[Head(microtasks)].owner # Provider
    /\ LET id == Head(microtasks)
           panel == calls[id].owner
       IN  \/ /\ panel \notin disposed
              /\ panelPosted' = [panelPosted EXCEPT
                    ![panel] = Append(@, ResponseMessage(calls[id].data, id))]
              /\ calls' = [calls EXCEPT ![id].pc = "done",
                                        ![id].delivery = "posted"]
           \/ /\ panel \in disposed
              /\ \E outcome \in DisposedPostOutcomes :
                    calls' = [calls EXCEPT
                        ![id].pc = "done",
                        ![id].delivery = IF outcome = "throws" THEN "caught"
                                         ELSE "ignored"]
              /\ UNCHANGED panelPosted
    /\ microtasks' = Tail(microtasks)
    /\ UNCHANGED <<view, html, history, viewPosted, currentPanels, created,
                   disposed, tlsRejectUnauthorized, now, unhandled, completed>>
    /\ incomplete' = {}

\* ------------------------------------------------------------------------
\* The transport: a pending fetch or text() settles

\* (variant) makeRequest putting NODE_TLS_REJECT_UNAUTHORIZED back before
\* it returns.
ReturnRestoringTLS(id, data, outcome, error) ==
    /\ calls' = [calls EXCEPT ![id].pc = "settled", ![id].data = data,
                              ![id].outcome = outcome, ![id].error = error]
    /\ viewPosted' = IF calls[id].owner = Provider THEN PostToView(data, id)
                     ELSE viewPosted
    /\ completed' = IF calls[id].owner = Provider THEN Append(completed, id)
                    ELSE completed
    /\ incomplete' = {}
    /\ microtasks' = Append(microtasks, id)
    /\ tlsRejectUnauthorized' = Undefined
    /\ UNCHANGED <<view, html, history, currentPanels, created, disposed,
                   panelPosted, now, unhandled>>

\* makeRequest after responseData is set: the provider's copy posts it to
\* the view; both return it, which queues the caller's continuation.
Return(id, data, outcome, error) ==
    /\ calls' = [calls EXCEPT ![id].pc = "settled", ![id].data = data,
                              ![id].outcome = outcome, ![id].error = error]
    /\ viewPosted' = IF calls[id].owner = Provider THEN PostToView(data, id)
                     ELSE viewPosted
    /\ completed' = IF calls[id].owner = Provider THEN Append(completed, id)
                    ELSE completed
    /\ incomplete' = {}
    /\ microtasks' = Append(microtasks, id)
    /\ UNCHANGED <<view, html, history, currentPanels, created, disposed,
                   panelPosted, tlsRejectUnauthorized, now, unhandled>>

ErrorData(id, error) ==
    IF calls[id].owner = Provider
    THEN ProviderErrorData(error, now - calls[id].startTime)
    ELSE MakeErrorData(error, now - calls[id].startTime)

\* (variant) A rejected fetch tried once more before the catch block runs.
FetchRejectedRetried(id, error) ==
    /\ Idle
    /\ id \in 1..Len(calls)
    /\ calls[id].pc = "fetch"
    /\ IF calls[id].fetches < 2
       THEN /\ calls' = [calls EXCEPT ![id].fetches = @ + 1]
            /\ UNCHANGED <<view, html, history, viewPosted, currentPanels,
                           created, disposed, panelPosted,
                           tlsRejectUnauthorized, microtasks, now, unhandled,
                           completed>>
            /\ incomplete' = {}
       ELSE Return(id, ErrorData(id, error), "fetchRejected", error)

FetchRejected(id, error) ==
    /\ Idle
    /\ id \in 1..Len(calls)
    /\ calls[id].pc = "fetch"
    /\ Return(id, ErrorData(id, error), "fetchRejected", error)

FetchResolved(id, response) ==
    /\ Idle
    /\ id \in 1..Len(calls)
    /\ calls[id].pc = "fetch"
    /\ calls' = [calls EXCEPT ![id].pc = "text", ![id].response = response]
    /\ UNCHANGED <<view, html, history, viewPosted, currentPanels, created,
                   disposed, panelPosted, tlsRejectUnauthorized, microtasks,
                   now, unhandled, completed>>
    /\ incomplete' = {}

\* (variant) response.text() awaited outside the try block: makeRequest
\* rejects, and its caller's continuation never runs.
TextRejectedUncaught(id, error) ==
    /\ Idle
    /\ id \in 1..Len(calls)
    /\ calls[id].pc = "text"
    /\ calls' = [calls EXCEPT ![id].pc = "done",
                              ![id].outcome = "textRejected",
                              ![id].error = error]
    /\ unhandled' = Append(unhandled, id)
    /\ UNCHANGED <<view, html, history, viewPosted, currentPanels, created,
                   disposed, panelPosted, tlsRejectUnauthorized, microtasks,
                   now, completed>>
    /\ incomplete' = {}

TextRejected(id, error) ==
    /\ Idle
    /\ id \in 1..Len(calls)
    /\ calls[id].pc = "text"
    /\ Return(id, ErrorData(id, error), "textRejected", error)

TextResolved(id, text) ==
    /\ Idle
    /\ id \in 1..Len(calls)
    /\ calls[id].pc = "text"
    /\ Return(id,
              IF calls[id].owner = Provider
              THEN ProviderResponseData(calls[id].response, text,
                                        now - calls[id].startTime)
              ELSE MakeResponseData(calls[id].response, text,
                                    now - calls[id].startTime),
              "ok", NoError)

\* Time passes.
Tick ==
    /\ Idle
    /\ now < MaxClock
    /\ now' = now + 1
    /\ UNCHANGED <<view, html, history, viewPosted, currentPanels, created,
                   disposed, panelPosted, tlsRejectUnauthorized, calls,
                   microtasks, unhandled, completed>>
    /\ incomplete' = {}

CallIds == 1..MaxCalls

\* The interleavings of up to MaxCalls calls of the provider and the panels,
\* within one reading of the clock.
Next ==
    \/ resolveWebviewView
    \/ \E message \in Messages : HistoryOnDidReceiveMessage(message)
    \/ HistoryThen
    \/ NewRequestCommand
    \/ \E panel \in Panels : PanelOnDidDispose(panel)
    \/ \E panel \in Panels, message \in Messages :
            PanelOnDidReceiveMessage(panel, message)
    \/ PanelResponse
    \/ \E id \in CallIds, error \in FetchErrors : FetchRejected(id, error)
    \/ \E id \in CallIds, response \in Responses : FetchResolved(id, response)
    \/ \E id \in CallIds, error \in TextErrors : TextRejected(id, error)
    \/ \E id \in CallIds, text \in Texts : TextResolved(id, text)

Spec == Init /\ [][Next]_vars

\* ------------------------------------------------------------------------
\* One call, of either copy of makeRequest (made for the one view or for
\* the one panel), over every message of ExecMessages and every answer of the
\* transport, while time passes.

ExecMethods == {"GET", "POST"}

ExecURLs == {"http://a.test/", "a.test/items"}

ExecQueryRows == {<<>>, <<Row(TRUE, "q", "x"), Row(FALSE, "unused", "y")>>}

ExecHeaderRows ==
    {<<>>, <<Row(TRUE, "Authorization", "mine")>>,
     <<Row(TRUE, "content-type", "text/plain")>>}

ExecUsernames == {"", "a", "user"}

ExecPasswords == {"", "b", "pa:ss"}

ExecTokens == {"", "t0k"}

ExecBodies == {"", "{}"}

ExecForms ==
    {Form(method, url, queryRows, headerRows, tab, username, password, token, body) :
        method \in ExecMethods, url \in ExecURLs, queryRows \in ExecQueryRows,
        headerRows \in ExecHeaderRows, tab \in {"none", "basic", "bearer"},
        username \in ExecUsernames, password \in ExecPasswords,
        token \in ExecTokens, body \in ExecBodies}

\* The options of the method select.
ExecAllMethods == {"GET", "POST", "PUT", "DELETE", "HEAD", "PATCH", "OPTIONS"}

\* Every method, with and without a body and a Content-Type row.
ExecMethodForms ==
    {Form(method, "http://a.test/", <<>>, headerRows, "none", "", "", "", body) :
        method \in ExecAllMethods,
        headerRows \in {<<>>, <<Row(TRUE, "Content-Type", "text/xml")>>},
        body \in ExecBodies}

\* Header rows that spell a name in another case, or are disabled or empty.
ExecOddHeaderRows ==
    {<<Row(TRUE, "authorization", "mine")>>,
     <<Row(TRUE, "Authorization", "mine"), Row(TRUE, "X-Trace", "1")>>,
     <<Row(TRUE, "CONTENT-TYPE", "text/xml")>>,
     <<Row(FALSE, "Authorization", "off"), Row(TRUE, "X-Empty", "")>>}

ExecHeaderForms ==
    {Form("POST", "http://a.test/", <<>>, headerRows, tab, "user", "pass", "t0k", "{}") :
        headerRows \in ExecOddHeaderRows, tab \in {"none", "basic", "bearer"}}

\* Query rows that repeat a key, hold a key that is a number, or are empty.
ExecOddQueryRows ==
    {<<Row(TRUE, "a", "1"), Row(TRUE, "a", "2")>>,
     <<Row(TRUE, "b", "1"), Row(TRUE, "1", "x")>>,
     <<Row(TRUE, "a", "1"), Row(TRUE, "b", "2"), Row(TRUE, "", "3"),
       Row(TRUE, "c", ""), Row(FALSE, "d", "4")>>}

ExecQueryForms ==
    {Form("GET", "http://a.test/", queryRows, <<>>, "none", "", "", "", "") :
        queryRows \in ExecOddQueryRows}

\* Urls that try the URL constructor.
ExecOddURLs ==
    {"http://", "//a.test", "http://a b/", "mailto:x", "http:a.test",
     " http://a.test/ "}

\* What sendRequest posts, and messages that leave optional fields out.
ExecMessages ==
    {sendRequest(form) : form \in ExecForms}
    \cup {sendRequest(form) :
            form \in ExecMethodForms \cup ExecHeaderForms \cup ExecQueryForms}
    \cup {WebviewMessage("makeRequest", "http://a.test/", "POST", Absent, "{}",
                         Absent, auth) :
            auth \in {NoAuth,
                      Auth("basic", Undefined, Undefined, Undefined),
                      Auth("bearer", Undefined, Undefined, Undefined),
                      Auth("digest", "a", "b", Undefined)}}
    \cup {WebviewMessage("makeRequest", url, "GET", Absent, Undefined, Absent,
                         NoAuth) : url \in ExecOddURLs}
    \cup {MsgNoURL, MsgNoMethod}

ExecFetchErrors ==
    {ErrorValue("getaddrinfo ENOTFOUND a.test"), ErrorValue("")}

ExecResponses ==
    {Response(200, "OK", <<P("content-type", "text/plain"),
                           P("set-cookie", "a=1; b=2; Path=/")>>),
     Response(404, "Not Found", <<>>),
     Response(200, "OK", <<P("set-cookie", "a=b=c; =x;y; z=")>>),
     Response(200, "OK", <<P("set-cookie", "sid=YWJj=; Path=/")>>)}

ExecTextErrors == {ErrorValue("Premature close")}

ExecTexts == {"", "hello"}

ExecNext ==
    \/ /\ view = 0
       /\ resolveWebviewView
    \/ /\ created = 0
       /\ NewRequestCommand
    \/ /\ calls = <<>>
       /\ \E message \in ExecMessages : HistoryOnDidReceiveMessage(message)
    \/ /\ calls = <<>>
       /\ \E panel \in Panels, message \in ExecMessages :
            PanelOnDidReceiveMessage(panel, message)
    \/ HistoryThen
    \/ PanelResponse
    \/ \E id \in CallIds, error \in ExecFetchErrors : FetchRejected(id, error)
    \/ \E id \in CallIds, response \in ExecResponses : FetchResolved(id, response)
    \/ \E id \in CallIds, error \in ExecTextErrors : TextRejected(id, error)
    \/ \E id \in CallIds, text \in ExecTexts : TextResolved(id, text)
    \/ Tick

ExecSpec == Init /\ [][ExecNext]_vars

\* ------------------------------------------------------------------------
\* The history view alone: its messages, its calls, and the panels that its
\* startNewRequest messages open (the command restExplorer.newRequest is
\* not run) and that are disposed.

\* One message of each case of the view's handler.
HistoryMessages == {MsgA, MsgBadURL, MsgOpenLink, MsgStartNewRequest}

HistoryNext ==
    \/ resolveWebviewView
    \/ \E message \in HistoryMessages : HistoryOnDidReceiveMessage(message)
    \/ HistoryThen
    \/ \E panel \in Panels : PanelOnDidDispose(panel)
    \/ \E id \in CallIds, error \in FetchErrors : FetchRejected(id, error)
    \/ \E id \in CallIds, response \in Responses : FetchResolved(id, response)
    \/ \E id \in CallIds, error \in TextErrors : TextRejected(id, error)
    \/ \E id \in CallIds, text \in Texts : TextResolved(id, text)

HistorySpec == Init /\ [][HistoryNext]_vars

\* ------------------------------------------------------------------------
\* Submissions of the history view for different urls and methods, pending
\* together and completing in any order.

MsgB ==
    sendRequest(Form("PUT", "http://b.test/items", <<>>, <<>>, "bearer", "",
                     "", "t0k", "{}"))

SubmitMessages == {MsgA, MsgB, MsgBadURL, MsgNoMethod}

SubmitNext ==
    \/ resolveWebviewView
    \/ \E message \in SubmitMessages : HistoryOnDidReceiveMessage(message)
    \/ HistoryThen
    \/ \E id \in CallIds, error \in FetchErrors : FetchRejected(id, error)
    \/ \E id \in CallIds, response \in Responses : FetchResolved(id, response)
    \/ \E id \in CallIds, error \in TextErrors : TextRejected(id, error)
    \/ \E id \in CallIds, text \in Texts : TextResolved(id, text)

SubmitSpec == Init /\ [][SubmitNext]_vars

\* ------------------------------------------------------------------------
\* The two copies of makeRequest side by side: the view and the one panel
\* are each given the same message, once, and the transport answers each of
\* the two calls, while time passes.

EquivMessages ==
    {sendRequest(form) :
        form \in ExecMethodForms \cup ExecHeaderForms \cup ExecQueryForms}
    \cup {WebviewMessage("makeRequest", "http://a.test/", "POST", Absent, "{}",
                         Absent, auth) :
            auth \in {NoAuth,
                      Auth("basic", Undefined, Undefined, Undefined),
                      Auth("bearer", Undefined, Undefined, Undefined),
                      Auth("digest", "a", "b", Undefined)}}
    \cup {WebviewMessage("makeRequest", url, "GET", Absent, Undefined, Absent,
                         NoAuth) : url \in ExecOddURLs}

EquivResponses ==
    {Response(200, "OK", <<P("content-type", "text/plain"),
                           P("set-cookie", "a=b=c; =x;y; z=")>>),
     Response(404, "Not Found", <<>>)}

\* The messages the next handler can be given: any, for the first call, and
\* then the message of the first call.
EquivGiven ==
    IF calls = <<>> THEN EquivMessages ELSE {calls[1].message}

EquivNext ==
    \/ /\ view = 0
       /\ resolveWebviewView
    \/ /\ created = 0
       /\ NewRequestCommand
    \/ /\ \A id \in 1..Len(calls) : calls[id].owner # Provider
       /\ Len(calls) <= 1
       /\ \E message \in EquivGiven : HistoryOnDidReceiveMessage(message)
    \/ /\ \A id \in 1..Len(calls) : calls[id].owner = Provider
       /\ Len(calls) <= 1
       /\ \E panel \in Panels, message \in EquivGiven :
            PanelOnDidReceiveMessage(panel, message)
    \/ HistoryThen
    \/ PanelResponse
    \/ \E id \in CallIds, error \in FetchErrors : FetchRejected(id, error)
    \/ \E id \in CallIds, response \in EquivResponses : FetchResolved(id, response)
    \/ \E id \in CallIds, error \in TextErrors : TextRejected(id, error)
    \/ \E id \in CallIds, text \in Texts : TextResolved(id, text)
    \/ Tick

EquivSpec == Init /\ [][EquivNext]_vars

\* ------------------------------------------------------------------------
\* Properties

Settled(call) == call.pc \in {"settled", "done"}

Failed(call) == call.outcome \in {"threw", "fetchRejected", "textRejected"}

InFlight(call) == call.pc \in {"fetch", "text"}

PanelCalls == {id \in 1..Len(calls) : calls[id].owner # Provider}

ProviderCalls == {id \in 1..Len(calls) : calls[id].owner = Provider}

\* The places of the messages about call id among those posted to the views.
ViewPosts(id) ==
    {place \in Views \X (1..Len(calls)) :
        /\ place[2] <= Len(viewPosted[place[1]])
        /\ viewPosted[place[1]][place[2]].call = id}

\* The places of the messages about call id among those posted to panel.
PanelPosts(panel, id) ==
    {i \in 1..Len(panelPosted[panel]) : panelPosted[panel][i].call = id}

HistoryEntries(id) == {i \in 1..Len(history) : history[i].call = id}

\* C1: makeRequest, in either copy, never raises: no message handler ends
\* with an error; a call has a ResponseData exactly when the URL constructor,
\* fetch or text() has decided its outcome, and then its caller has it; and
\* the ResponseData of every failure has status 0, that of a success the
\* response's status.
C1_NeverRaises ==
    /\ unhandled = <<>>
    /\ \A id \in 1..Len(calls) :
        LET call == calls[id]
        IN  /\ (call.outcome # "pending") <=> Settled(call)
            /\ Settled(call) =>
                /\ call.data # NoData
                /\ call.data.size = Len(call.data.body)
            /\ Failed(call) => call.data.status = 0
            /\ call.outcome = "ok" => call.data.status = call.response.status

\* Calls of both copies have come to each of the three failures.
C1_Witness ==
    /\ \A outcome \in {"threw", "fetchRejected", "textRejected"} :
        \E id \in 1..Len(calls) :
            calls[id].pc = "done" /\ calls[id].outcome = outcome
    /\ PanelCalls # {}
    /\ ProviderCalls # {}

\* C2: the ResponseData of a failure is exactly status 0, statusText
\* "Error", no headers, no cookies, the error's message as body and that
\* message's length as size, whatever the response held that fetch had
\* already given.
C2_FailureRecord ==
    \A id \in 1..Len(calls) :
        LET call == calls[id]
        IN  Failed(call) =>
                /\ call.data = ResponseData(0, "Error", <<>>,
                                            call.error.message,
                                            Len(call.error.message),
                                            call.data.time, <<>>)
                /\ call.data.time \in 0..(now - call.startTime)

\* text() has failed on a response that came with headers and a cookie.
C2_Witness ==
    \E id \in 1..Len(calls) :
        /\ calls[id].outcome = "textRejected"
        /\ Settled(calls[id])
        /\ Truthy(Get(calls[id].response.headers, "set-cookie"))
        /\ calls[id].data.body = "Premature close"

\* C3: for a url that is no valid absolute URL the call gives the failure
\* whose body is the URL constructor's message, without ever calling fetch.
C3_InvalidURL ==
    \A id \in 1..Len(calls) :
        LET call == calls[id]
        IN  ~IsAbsoluteURL(ToStr(call.message.url)) =>
                /\ call.fetches = 0
                /\ call.response = NoResponse
                /\ Settled(call)
                /\ call.outcome = "threw"
                /\ call.data.status = 0
                /\ call.data.body = InvalidURLMessage
                /\ tlsRejectUnauthorized = Undefined

\* A call for "http://", a scheme without a host, has returned.
C3_Witness ==
    \E id \in 1..Len(calls) :
        /\ calls[id].message.url = "http://"
        /\ calls[id].pc = "done"
        /\ calls[id].data.body = InvalidURLMessage

\* C4: the history holds the provider's calls in the order in which they
\* returned: its entries are, in order, for the first calls of completed.
C4_CompletionOrder ==
    /\ Len(history) <= Len(completed)
    /\ \A i \in 1..Len(history) : history[i].call = completed[i]

\* Three calls submitted in the order 1, 2, 3 and answered by the network
\* in the order 2, 1, 3 have given the history [2, 1, 3].
C4_Witness ==
    /\ Len(history) = 3
    /\ <<history[1].call, history[2].call, history[3].call>> = <<2, 1, 3>>
    /\ \A id \in 1..3 : calls[id].fetches = 1

\* C5: the history only grows at its end: in every step, the history before
\* is a prefix of the history after.
C5_AppendOnly ==
    [][/\ Len(history) <= Len(history')
       /\ SubSeq(history', 1, Len(history)) = history]_vars

\* The history holds three entries, two of them for the same method, url
\* and response.
C5_Witness ==
    /\ Len(history) = 3
    /\ \E i, j \in 1..3 :
        /\ i < j
        /\ history[i].url = history[j].url
        /\ history[i].method = history[j].method
        /\ history[i].response = history[j].response

\* C6: a call of the provider has, once it has returned, exactly one
\* response message with its ResponseData among those posted to the view,
\* and, once its .then callback has run, exactly one history entry, with
\* the message's url and method and that ResponseData; and the view's list
\* is rendered from the history as it is.
C6_OneEntryOnePush ==
    /\ view # 0 => html[view] = history
    /\ Len(history) = Cardinality({id \in ProviderCalls : calls[id].pc = "done"})
    /\ \A id \in ProviderCalls :
        LET call == calls[id]
        IN  /\ Cardinality(HistoryEntries(id)) = IF call.pc = "done" THEN 1 ELSE 0
            /\ \A i \in HistoryEntries(id) :
                /\ history[i].response = call.data
                /\ history[i].url = call.message.url
                /\ history[i].method = call.message.method
            /\ Cardinality(ViewPosts(id)) = IF Settled(call) THEN 1 ELSE 0
            /\ \A place \in ViewPosts(id) :
                viewPosted[place[1]][place[2]]
                    = ResponseMessage(call.data, id)
            /\ \A panel \in Panels : PanelPosts(panel, id) = {}

\* The provider has finished a call that succeeded and one that failed.
C6_Witness ==
    /\ \E id \in ProviderCalls :
        calls[id].pc = "done" /\ calls[id].outcome = "ok"
    /\ \E id \in ProviderCalls :
        calls[id].pc = "done" /\ calls[id].outcome = "fetchRejected"
    /\ Len(history) = 2

\* C7: a call made for a panel gives one postMessage, on that panel: once
\* the handler has resumed, exactly one response message with the call's
\* ResponseData is among those posted to the panel (none when the panel was
\* disposed by then), none is posted to another panel or to the view, and
\* the history has no entry for the call.
C7_PanelOnly ==
    \A id \in PanelCalls :
        LET call == calls[id]
        IN  /\ Cardinality(PanelPosts(call.owner, id))
                = IF call.delivery = "posted" THEN 1 ELSE 0
            /\ \A i \in PanelPosts(call.owner, id) :
                panelPosted[call.owner][i] = ResponseMessage(call.data, id)
            /\ call.pc = "done" <=> call.delivery # "none"
            /\ (call.pc = "done" /\ call.owner \notin disposed)
                => call.delivery = "posted"
            /\ \A panel \in Panels \ {call.owner} : PanelPosts(panel, id) = {}
            /\ ViewPosts(id) = {}
            /\ HistoryEntries(id) = {}

\* Panel 1 has its response while panel 2 and the view are open and have
\* been posted nothing, and the history is empty.
C7_Witness ==
    /\ \E id \in PanelCalls :
        /\ calls[id].owner = 1
        /\ calls[id].pc = "done"
        /\ calls[id].outcome = "ok"
        /\ Len(panelPosted[1]) = 1
    /\ \E i \in 1..Len(currentPanels) : currentPanels[i] = 2
    /\ panelPosted[2] = <<>>
    /\ view # 0
    /\ history = <<>>

\* C8: disposing a panel leaves every call as it is, the panel's own
\* included; and when the handler of a disposed panel resumes with the
\* response, nothing changes but the call being over: no error leaves the
\* handler, and the messages posted to the panels and the view, the open
\* panels and the history stay as they were.
C8_LateResponse ==
    [][/\ disposed' # disposed => (calls' = calls /\ microtasks' = microtasks)
       /\ \A id \in PanelCalls :
            (/\ calls[id].owner \in disposed
             /\ calls[id].pc = "settled"
             /\ calls'[id].pc = "done")
            => /\ unhandled' = unhandled
               /\ panelPosted' = panelPosted
               /\ viewPosted' = viewPosted
               /\ currentPanels' = currentPanels
               /\ history' = history
               /\ html' = html]_vars

\* A call went to the network, its panel was disposed, the response came,
\* and the handler's postMessage threw.
C8_Witness ==
    \E id \in PanelCalls :
        /\ calls[id].owner \in disposed
        /\ calls[id].pc = "done"
        /\ calls[id].outcome = "ok"
        /\ calls[id].fetches = 1
        /\ calls[id].delivery = "caught"
        /\ unhandled = <<>>

\* C9, as claimed: no panel, and not the history view, has more than one
\* call awaiting the network at a time.
C9_AtMostOneInFlight ==
    \A owner \in {Provider} \cup Panels :
        Cardinality({id \in 1..Len(calls) :
            calls[id].owner = owner /\ InFlight(calls[id])}) <= 1

\* C9: a submit starts one call and leaves the calls before it as they are,
\* those of its own panel included: a step adds at most one call, and the
\* calls made before the step are the same after it but for the one call
\* (if any) that step moved on.
C9_SubmitStartsAlongside ==
    [][/\ Len(calls') \in {Len(calls), Len(calls) + 1}
       /\ Len(calls') = Len(calls) + 1
            => /\ SubSeq(calls', 1, Len(calls)) = calls
               /\ calls'[Len(calls')].owner # Provider
                    => calls'[Len(calls')].owner \notin disposed]_vars

\* One panel has two calls awaiting the network.
C9_Witness ==
    \E panel \in Panels :
        Cardinality({id \in 1..Len(calls) :
            calls[id].owner = panel /\ InFlight(calls[id])}) = 2

Base64Index(c) == IndexOf(Base64Alphabet, c) - 1

\* The bytes that the base64 text s stands for.
RECURSIVE FromBase64(_)
FromBase64(s) ==
    IF Len(s) < 4 THEN <<>>
    ELSE LET a == Base64Index(CharAt(s, 1))
             b == Base64Index(CharAt(s, 2))
             c == Base64Index(CharAt(s, 3))
             d == Base64Index(CharAt(s, 4))
             rest == FromBase64(SubSeq(s, 5, Len(s)))
         IN  IF CharAt(s, 3) = "=" THEN <<a * 4 + b \div 16>>
             ELSE IF CharAt(s, 4) = "="
             THEN <<a * 4 + b \div 16, (b % 16) * 16 + c \div 4>>
             ELSE <<a * 4 + b \div 16, (b % 16) * 16 + c \div 4,
                    (c % 4) * 64 + d>> \o rest

\* C10: the options handed to fetch for a message with basic auth have, as
\* Authorization, "Basic " and then the base64 text, padded to whole groups
\* of four, of the bytes of username, ':' and password.
C10_BasicAuthorization ==
    \A id \in 1..Len(calls) :
        LET call == calls[id]
            auth == call.message.auth
            credentials == BufferFrom(ToStr(auth.username) \o ":"
                                      \o ToStr(auth.password))
            header == Get(call.request.options.headers, "Authorization")
            encoded == SubSeq(header, 7, Len(header))
        IN  (auth.def /\ auth.type = "basic" /\ ~call.request.threw) =>
                /\ SubSeq(header, 1, 6) = "Basic "
                /\ Len(encoded) = 4 * ((Len(credentials) + 2) \div 3)
                /\ \A i \in 1..Len(encoded) :
                    IsIn(CharAt(encoded, i), Base64Alphabet \o "=")
                /\ FromBase64(encoded) = credentials

\* fetch was called for a form with basic auth and both fields empty, with
\* the Authorization "Basic Og==".
C10_Witness ==
    \E id \in 1..Len(calls) :
        /\ calls[id].message.auth.type = "basic"
        /\ calls[id].message.auth.username = ""
        /\ calls[id].message.auth.password = ""
        /\ calls[id].fetches = 1
        /\ Get(calls[id].request.options.headers, "Authorization")
            = "Basic Og=="

ReachedFetch(call) == ~call.request.threw

\* C11, as claimed: fetch is never handed headers under which the name
\* Authorization, in whatever case, has more than one value to send.
C11_OneAuthorization ==
    \A id \in 1..Len(calls) :
        ReachedFetch(calls[id]) =>
            Len(SentValues(calls[id].request.options.headers,
                           "Authorization")) <= 1

\* The headers of the message, as the user's rows gave them.
UserHeaders(message) ==
    IF message.headers.def THEN message.headers.props ELSE <<>>

UsesAuth(auth) == auth.def /\ auth.type \in {"basic", "bearer"}

\* The Authorization value that the auth section stands for.
AuthValue(auth) ==
    IF auth.type = "basic"
    THEN "Basic " \o ToBase64(BufferFrom(ToStr(auth.username) \o ":"
                                         \o ToStr(auth.password)))
    ELSE "Bearer " \o ToStr(auth.token)

\* C12, as claimed: when the user's headers hold an Authorization header
\* and auth is basic or bearer, the one Authorization value sent is the one
\* the auth section stands for; when auth is neither, the headers handed to
\* fetch are the user's (with the default Content-Type a body may add).
C12_AuthWins ==
    \A id \in 1..Len(calls) :
        LET call == calls[id]
            user == UserHeaders(call.message)
            sent == call.request.options.headers
        IN  ReachedFetch(call) =>
                IF UsesAuth(call.message.auth)
                THEN SentValues(user, "Authorization") # <<>>
                        => SentValues(sent, "Authorization")
                            = <<AuthValue(call.message.auth)>>
                ELSE \/ sent = user
                     \/ /\ call.request.options.hasBody
                        /\ sent = Put(user, "Content-Type", "application/json")

C14_ContentTypeDefault ==
    \A id \in 1..Len(calls) :
        LET call == calls[id]
            user == SentValues(UserHeaders(call.message), "Content-Type")
            sent == SentValues(call.request.options.headers, "Content-Type")
        IN  ReachedFetch(call) =>
                sent = IF user # <<>> THEN user
                       ELSE IF call.request.options.hasBody
                       THEN <<"application/json">>
                       ELSE <<>>

\* The key and value of every checked row whose key and value are not
\* empty, in the order of the rows.
RECURSIVE EnabledRows(_)
EnabledRows(rows) ==
    IF rows = <<>> THEN <<>>
    ELSE (IF Head(rows).checked /\ Head(rows).key # "" /\ Head(rows).value # ""
          THEN <<(<<Head(rows).key, Head(rows).value>>)>> ELSE <<>>)
         \o EnabledRows(Tail(rows))

\* C15, as claimed: for the message that sendRequest posts for a form, the
\* parameters appended to the url are those of the form's enabled, non-empty
\* query rows, one for each row and in the order of the rows.
C15_QueryRowsInOrder ==
    \A form \in ExecQueryForms :
        \A id \in 1..Len(calls) :
            (calls[id].message = sendRequest(form) /\ ReachedFetch(calls[id]))
            => calls[id].request.url.appended = EnabledRows(form.queryRows)

\* The reference parser: each segment between ';' that holds an '=' maps
\* what is before its first '=', trimmed, to all that is after it, trimmed;
\* a segment without '=', or with nothing left of its name or value, is
\* dropped.
RECURSIVE ReferenceCookies(_, _)
ReferenceCookies(cookies, segments) ==
    IF segments = <<>> THEN cookies
    ELSE LET segment == Head(segments)
             i == IndexOf(segment, "=")
             name == Trim(SubSeq(segment, 1, i - 1))
             value == Trim(SubSeq(segment, i + 1, Len(segment)))
         IN  ReferenceCookies(
                IF i # 0 /\ name # "" /\ value # ""
                THEN Put(cookies, name, value)
                ELSE cookies,
                Tail(segments))

Succeeded(call) == call.outcome = "ok"

\* C16, as claimed: the cookies of a response are what the reference parser
\* makes of its set-cookie header.
C16_ReferenceParser ==
    \A id \in 1..Len(calls) :
        LET call == calls[id]
            setCookie == Get(call.response.headers, "set-cookie")
        IN  Succeeded(call) =>
                call.data.cookies
                    = IF setCookie = Undefined THEN <<>>
                      ELSE ReferenceCookies(<<>>, Split(setCookie, ";"))

\* C17, as claimed: the cookies of a response hold no empty name and no
\* empty value.
C17_NoEmptyCookie ==
    \A id \in 1..Len(calls) :
        Succeeded(calls[id]) =>
            \A i \in 1..Len(calls[id].data.cookies) :
                /\ calls[id].data.cookies[i].k # ""
                /\ calls[id].data.cookies[i].v # ""

\* C18: a call of makeRequest calls fetch once, or not at all when the URL
\* constructor threw, whatever its outcome; and a failure ends the call.
C18_AttemptedOnce ==
    \A id \in 1..Len(calls) :
        LET call == calls[id]
        IN  /\ call.fetches = IF call.request.threw THEN 0 ELSE 1
            /\ Failed(call) => Settled(call)

\* A call whose fetch was rejected and one whose text() was rejected are
\* over, each after one fetch.
C18_Witness ==
    /\ \E id \in 1..Len(calls) :
        /\ calls[id].pc = "done"
        /\ calls[id].outcome = "fetchRejected"
        /\ calls[id].fetches = 1
    /\ \E id \in 1..Len(calls) :
        /\ calls[id].pc = "done"
        /\ calls[id].outcome = "textRejected"
        /\ calls[id].fetches = 1

\* C19: NODE_TLS_REJECT_UNAUTHORIZED, once "0", is "0" after every step;
\* and every call that goes on to fetch, whoever made it, leaves it "0".
C19_NeverReEnabled ==
    [][/\ tlsRejectUnauthorized = "0" => tlsRejectUnauthorized' = "0"
       /\ (/\ Len(calls') > Len(calls)
           /\ ~calls'[Len(calls')].request.threw)
            => tlsRejectUnauthorized' = "0"]_vars

\* The flag is "0" after a call of panel 1 is over, while panel 2 and the
\* history view each have a call awaiting the network.
C19_Witness ==
    /\ tlsRejectUnauthorized = "0"
    /\ \E id \in 1..Len(calls) :
        calls[id].owner = 1 /\ calls[id].pc = "done" /\ calls[id].fetches = 1
    /\ \E id \in 1..Len(calls) : calls[id].owner = 2 /\ InFlight(calls[id])
    /\ \E id \in 1..Len(calls) :
        calls[id].owner = Provider /\ InFlight(calls[id])

\* C20: a step of the history view's handler that opens a panel (here only
\* a startNewRequest message does) opens exactly one, which is new: it is
\* numbered next, is put last among the open panels, was never disposed and
\* has been posted nothing; and the step leaves the history, the rendered
\* list and the calls as they were.
C20_StartNewRequest ==
    [][created' # created =>
        /\ created' = created + 1
        /\ currentPanels' = Append(currentPanels, created')
        /\ created' \notin disposed'
        /\ panelPosted'[created'] = <<>>
        /\ history' = history
        /\ html' = html
        /\ calls' = calls
        /\ viewPosted' = viewPosted]_vars

\* Two startNewRequest messages have opened panels 1 and 2, the second one
\* when the history held an entry and panel 1 was disposed.
C20_Witness ==
    /\ created = 2
    /\ currentPanels = <<2>>
    /\ disposed = {1}
    /\ Len(history) >= 1

\* The panels in currentPanels.
OpenPanels(panels) == {panels[i] : i \in 1..Len(panels)}

\* C21: the open panels are always the panels created and not yet closed,
\* none of them twice; a step that creates a panel puts exactly that panel
\* after the others, and a step that closes a panel takes out exactly that
\* panel and leaves the others in their order.
C21_OpenPanels ==
    [][/\ OpenPanels(currentPanels') = (1..created') \ disposed'
       /\ Len(currentPanels') = Cardinality(OpenPanels(currentPanels'))
       /\ created' # created =>
            /\ currentPanels' = Append(currentPanels, created')
            /\ disposed' = disposed
       /\ disposed' # disposed =>
            \E panel \in OpenPanels(currentPanels) :
                /\ disposed' = disposed \cup {panel}
                /\ created' = created
                /\ currentPanels'
                    = SelectSeq(currentPanels, LAMBDA p : p # panel)
       /\ (created' = created /\ disposed' = disposed)
            => currentPanels' = currentPanels]_vars

\* Panel 1 was closed while panel 2 was open, and panel 2 is still open,
\* with a call of panel 1 still awaiting the network.
C21_Witness ==
    /\ created = 2
    /\ disposed = {1}
    /\ currentPanels = <<2>>
    /\ \E id \in 1..Len(calls) : calls[id].owner = 1 /\ InFlight(calls[id])

\* The rendered list of some view shows the entry of call id.
Shown(rendered, id) ==
    \E v \in Views : \E i \in 1..Len(rendered[v]) : rendered[v][i].call = id

\* C22: in every step that appends the entry of a call of the history view
\* to the history, and in every step after which a rendered list shows it
\* for the first time, the response of that call was posted to the view
\* before the step, once, and it is the response the entry holds.
C22_PushBeforeAppend ==
    [][\A id \in 1..Len(calls) :
        (\/ HistoryEntries(id)' # {} /\ HistoryEntries(id) = {}
         \/ Shown(html', id) /\ ~Shown(html, id))
        => /\ Cardinality(ViewPosts(id)) = 1
           /\ \A place \in ViewPosts(id) :
                \A i \in HistoryEntries(id)' :
                    viewPosted[place[1]][place[2]].data = history'[i].response
           /\ viewPosted' = viewPosted]_vars

\* The response of a call of the history view has been posted to the view
\* and its entry is not yet in the history nor shown, while the entry of an
\* earlier call is.
C22_Witness ==
    /\ \E id \in ProviderCalls :
        /\ calls[id].pc = "settled"
        /\ calls[id].outcome = "ok"
        /\ ViewPosts(id) # {}
        /\ HistoryEntries(id) = {}
        /\ ~Shown(html, id)
    /\ \E id \in ProviderCalls :
        /\ HistoryEntries(id) # {}
        /\ Shown(html, id)
        /\ ViewPosts(id) # {}

\* C23: a step in which a handler, of the view or of a panel, is given a
\* makeRequest message whose url or method is missing or empty changes
\* nothing: no call is made, nothing is posted to a view or a panel, and
\* the history, the rendered lists and NODE_TLS_REJECT_UNAUTHORIZED stay
\* as they were; and no call is ever made for such a message.
C23_IncompleteIgnored ==
    [][/\ incomplete' # {} => UNCHANGED programVars
       /\ \A id \in 1..Len(calls') : ~Incomplete(calls'[id].message)]_vars

\* The view's handler and a panel's handler have each been given such a
\* message, in a state where the history holds an entry, a call awaits the
\* network and the flag is "0".
C23_Witness ==
    /\ incomplete = {"view", "panel"}
    /\ history # <<>>
    /\ tlsRejectUnauthorized = "0"
    /\ \E id \in 1..Len(calls) : InFlight(calls[id])

\* The urls among the messages submitted that the URL constructor rejects.
InvalidSubmitURLs ==
    {message.url :
        message \in {m \in SubmitMessages :
                        Truthy(m.url) /\ ~IsAbsoluteURL(ToStr(m.url))}}

\* C24: each entry of the history holds the url and the method of the
\* message one call of the history view was made for, together with the
\* ResponseData that very call returned, so that an entry has the failure
\* record of the URL constructor exactly when its own url is not a URL; a
\* call of the view whose continuation has run has exactly one entry, and
\* one that has returned and has none yet has its continuation queued.
C24_EntryPairsSubmission ==
    /\ \A i \in 1..Len(history) :
        LET entry == history[i]
        IN  /\ entry.call \in ProviderCalls
            /\ entry.url = calls[entry.call].message.url
            /\ entry.method = calls[entry.call].message.method
            /\ entry.response = calls[entry.call].data
            /\ (entry.response.body = InvalidURLMessage)
                    <=> entry.url \in InvalidSubmitURLs
    /\ \A id \in ProviderCalls :
        /\ Cardinality(HistoryEntries(id))
                = IF calls[id].pc = "done" THEN 1 ELSE 0
        /\ calls[id].pc = "settled"
                => \E k \in 1..Len(microtasks) : microtasks[k] = id

\* Two submissions with different urls and methods awaited the network
\* together and completed in the reverse of the order they were made in,
\* the later one with a response and the earlier one with a failure.
C24_Witness ==
    /\ Len(history) = 2
    /\ history[1].call > history[2].call
    /\ history[1].url = "http://b.test/items"
    /\ history[1].method = "PUT"
    /\ history[1].response.status = 200
    /\ history[2].url = "http://a.test/"
    /\ history[2].method = "GET"
    /\ history[2].response.status = 0
    /\ history[1].timestamp = history[2].timestamp

\* The transport gave calls a and b the same answer.
SameAnswer(a, b) ==
    /\ a.outcome = b.outcome
    /\ a.error = b.error
    /\ a.response = b.response
    /\ a.outcome = "ok" => a.data.body = b.data.body

TimeAside(data) == [data EXCEPT !.time = 0]

\* C25: the request and the ResponseData of every call, whoever made it,
\* are those that the provider's makeRequest and activate's makeRequest
\* each give for the call's message and the transport's answer; a call of
\* the view and a call of a panel for the same message hand the same url,
\* headers and body to fetch, as often, and on the same answer return the
\* same ResponseData, time aside; and when makeRequest has returned, the
\* provider's has posted that ResponseData to the view, once, while
\* activate's has posted nothing anywhere.
C25_CopiesEquivalent ==
    /\ \A id \in 1..Len(calls) :
        LET call == calls[id]
        IN  /\ call.request = ProviderRequest(call.message)
            /\ call.request = Request(call.message)
            /\ call.outcome = "ok" =>
                /\ call.data = ProviderResponseData(call.response,
                                    call.data.body, call.data.time)
                /\ call.data = MakeResponseData(call.response,
                                    call.data.body, call.data.time)
            /\ Failed(call) =>
                /\ call.data = ProviderErrorData(call.error, call.data.time)
                /\ call.data = MakeErrorData(call.error, call.data.time)
            /\ call.pc = "settled" =>
                /\ Cardinality(ViewPosts(id))
                        = IF call.owner = Provider THEN 1 ELSE 0
                /\ \A place \in ViewPosts(id) :
                        viewPosted[place[1]][place[2]].data = call.data
                /\ \A panel \in Panels : PanelPosts(panel, id) = {}
    /\ \A a \in ProviderCalls, b \in PanelCalls :
        calls[a].message = calls[b].message =>
            /\ calls[a].request = calls[b].request
            /\ calls[a].fetches = calls[b].fetches
            /\ (Settled(calls[a]) /\ Settled(calls[b])
                    /\ SameAnswer(calls[a], calls[b]))
                => TimeAside(calls[a].data) = TimeAside(calls[b].data)

\* The view and the panel were given the same message, with a body and
\* basic auth beside a header row of its own, and both calls got the same
\* response, with cookies; they returned the same ResponseData but for the
\* time, and only the provider's is posted to the view; the panel's handler
\* has yet to resume.
C25_Witness ==
    \E a \in ProviderCalls, b \in PanelCalls :
        /\ calls[a].message = calls[b].message
        /\ calls[a].message.auth.type = "basic"
        /\ Truthy(calls[a].message.body)
        /\ calls[a].pc = "done"
        /\ calls[b].pc = "settled"
        /\ calls[a].outcome = "ok"
        /\ SameAnswer(calls[a], calls[b])
        /\ calls[a].data.cookies # <<>>
        /\ calls[a].data.time # calls[b].data.time
        /\ TimeAside(calls[a].data) = TimeAside(calls[b].data)
        /\ ViewPosts(a) # {}
        /\ ViewPosts(b) = {}

====
